---- MODULE Spec2Model ----
(***************************************************************************)
(* Model of VectorStoreService (be/src/services/vectorStore.ts): the       *)
(* per-user conversation sessions with their TTL sweep, and the lazily     *)
(* built, credential-gated vector index with its pending queue.            *)
(*                                                                         *)
(* Node.js runs one callback at a time: the code between two awaits on     *)
(* external I/O (the embedding provider) is one atomic step.  Every        *)
(* action below is one such step: the synchronous part of a call up to     *)
(* its first I/O await, or the continuation that runs when that I/O        *)
(* resolves or rejects.  Time is counted in whole hours.                   *)
(***************************************************************************)
EXTENDS Integers, Sequences, FiniteSets, Bags, TLC

\* ------------------------------------------------------------------ bounds
Users == {"u1", "u2"}
Keys == {"k1", "k2"}
\* a missing credential (undefined or the empty string: both are falsy)
NoKey == ""
\* messages of the first user in one run of the long-run session specification
MaxMsgs == 16
\* messages created in one run of the session specification with the clock,
\* and messages of every other user in a run of the long-run one
MaxSessionMsgs == 2
\* sessions created (uuidv4 draws) in one run
MaxSessions == 2
\* clock advances in one run of the session specification with the clock
MaxTicks == 2
\* hours by which one clock advance moves the time
TickSteps == {1, 48}

\* ------------------------------------------------------- program constants
MAX_RECENT_MESSAGES == 15
MAX_SESSION_AGE_HOURS == 48

VARIABLES
    conversationSessions,   \* sessionId -> ConversationSession
    userCurrentSessions,    \* userId -> sessionId
    now,                    \* the clock (new Date()), in hours
    ticks,                  \* clock advances so far
    nextSid,                \* next fresh uuid for a session
    msgCount,               \* userId -> messages created for that user
    lastOp,                 \* the step that ran last, with what it returned
    vectorStore,            \* the index handle: 0 (null) or an index of stores
    stores,                 \* every HNSWLib instance built so far
    pendingMessages,        \* the pending queue
    tasks,                  \* the bag of calls suspended at an await on the provider
    nextTask,               \* next fresh task id
    builds,                 \* HNSWLib.fromTexts calls started so far
    docCount,               \* documents handed to addDocuments so far
    turns                   \* the chat turns (processChat calls) in flight

sessionVars == <<conversationSessions, userCurrentSessions, nextSid, msgCount>>
clockVars == <<now, ticks>>
indexVars == <<vectorStore, stores, pendingMessages, tasks, nextTask, builds,
               docCount>>
vars == <<conversationSessions, userCurrentSessions, now, ticks, nextSid,
          msgCount, lastOp, vectorStore, stores, pendingMessages, tasks,
          nextTask, builds, docCount, turns>>

\* no call is between the return of _initializeVectorStoreWithKey and its own
\* next statement: such a call goes on in the same turn of the event loop, before
\* any request handler or timer callback starts
Quiet == \A t \in BagToSet(tasks) : t.pc # "resume"

\* the query of a call that makes no search
NoQuery == <<>>

\* ----------------------------------------------------------------- helpers
\* what a step reports: the call, how it ended ("resolved" / "rejected" /
\* "logged": a rejection caught and logged in the background / "pending": it
\* waits for the provider), and for the calls that return something the user,
\* a session id before and after, and the items returned; scores are the
\* scores the provider gave the items a search returned
Op(name, u, outcome, prev, ret, items) ==
    [op |-> name, user |-> u, outcome |-> outcome,
     prev |-> prev, ret |-> ret, items |-> items, scores |-> <<>>,
     query |-> NoQuery]

\* Array.prototype.slice(-n) for n > 0: the last n elements
SliceLast(s, n) ==
    IF Len(s) <= n THEN s ELSE SubSeq(s, Len(s) - n + 1, Len(s))

\* Array.prototype.slice(0, n)
SliceFirst(s, n) == IF Len(s) <= n THEN s ELSE SubSeq(s, 1, n)

\* Map.get(key), with 0 standing for undefined
MapGet(m, k) == IF k \in DOMAIN m THEN m[k] ELSE 0

\* Map.set(key, value)
MapSet(m, k, v) == [x \in DOMAIN m \cup {k} |-> IF x = k THEN v ELSE m[x]]

\* Map.delete(key)
MapDelete(m, k) == [x \in DOMAIN m \ {k} |-> m[x]]

\* createChatMessage: a fresh id, the role, the owner and the creation time
createChatMessage(role, u) ==
    [id |-> <<u, msgCount[u] + 1>>, role |-> role, userId |-> u,
     timestamp |-> now]

\* ---------------------------------------------------------- session store
\* the lookup that makes a fresh session on every call
getCurrentSessionAlwaysNew(cs, ucs, u) ==
    [sessionId |-> nextSid,
     sessions |-> MapSet(cs, nextSid,
                   [sessionId |-> nextSid, userId |-> u,
                    messages |-> <<>>, lastActivity |-> now,
                    createdAt |-> now]),
     current |-> MapSet(ucs, u, nextSid),
     created |-> TRUE]

\* getCurrentSession: the user's session, created (and made current) when the
\* pointer is missing or dangling.  Returns the session id and both maps.
getCurrentSession(cs, ucs, u) ==
    LET sid == MapGet(ucs, u)
    IN  IF sid # 0 /\ sid \in DOMAIN cs
        THEN [sessionId |-> sid, sessions |-> cs, current |-> ucs,
              created |-> FALSE]
        ELSE [sessionId |-> nextSid,
              sessions |-> MapSet(cs, nextSid,
                            [sessionId |-> nextSid, userId |-> u,
                             messages |-> <<>>, lastActivity |-> now,
                             createdAt |-> now]),
              current |-> MapSet(ucs, u, nextSid),
              created |-> TRUE]

\* a call of getCurrentSession can draw a fresh session id
CanGetSession(ucs, cs, u) ==
    (MapGet(ucs, u) # 0 /\ MapGet(ucs, u) \in DOMAIN cs) \/ nextSid <= MaxSessions

\* the trim that lets one message too many through
TrimMessagesLate(msgs) ==
    IF Len(msgs) > MAX_RECENT_MESSAGES + 1
    THEN SliceLast(msgs, MAX_RECENT_MESSAGES)
    ELSE msgs

\* the trimmed message list after a push
TrimMessages(msgs) ==
    IF Len(msgs) > MAX_RECENT_MESSAGES
    THEN SliceLast(msgs, MAX_RECENT_MESSAGES)
    ELSE msgs

\* the append that leaves lastActivity as it was
AppendToSessionNoTouch(message) ==
    LET g == getCurrentSession(conversationSessions, userCurrentSessions,
                               message.userId)
        s == g.sessions[g.sessionId]
    IN  /\ conversationSessions' =
              [g.sessions EXCEPT ![g.sessionId] =
                  [s EXCEPT !.messages = TrimMessages(Append(s.messages, message))]]
        /\ userCurrentSessions' = g.current
        /\ nextSid' = IF g.created THEN nextSid + 1 ELSE nextSid
        /\ msgCount' = [msgCount EXCEPT ![message.userId] = @ + 1]

\* the session part of addChatMessage / addChatMessageSync: push, touch, trim
AppendToSession(message) ==
    LET g == getCurrentSession(conversationSessions, userCurrentSessions,
                               message.userId)
        s == g.sessions[g.sessionId]
    IN  /\ conversationSessions' =
              [g.sessions EXCEPT ![g.sessionId] =
                  [s EXCEPT !.messages = TrimMessages(Append(s.messages, message)),
                            !.lastActivity = now]]
        /\ userCurrentSessions' = g.current
        /\ nextSid' = IF g.created THEN nextSid + 1 ELSE nextSid
        /\ msgCount' = [msgCount EXCEPT ![message.userId] = @ + 1]

\* the age test that also expires a session at exactly the maximum age
IsExpiredInclusive(session, t) ==
    t - session.lastActivity >= MAX_SESSION_AGE_HOURS

\* hours since the session was last touched exceed the maximum age
IsExpired(session, t) == t - session.lastActivity > MAX_SESSION_AGE_HOURS

\* the sweep that looks only at the sessions the user pointers name
cleanupExpiredSessionsPointedOnly ==
    /\ Quiet
    /\ LET pointed == {userCurrentSessions[u] : u \in DOMAIN userCurrentSessions}
           expired == {sid \in DOMAIN conversationSessions \cap pointed :
                           IsExpired(conversationSessions[sid], now)}
       IN  /\ conversationSessions' =
                 [sid \in DOMAIN conversationSessions \ expired |->
                     conversationSessions[sid]]
           /\ userCurrentSessions' =
                 [u \in {x \in DOMAIN userCurrentSessions :
                             userCurrentSessions[x] \notin expired} |->
                     userCurrentSessions[u]]
           /\ lastOp' = Op("cleanupExpiredSessions", "", "resolved", 0, 0, <<>>)
           /\ UNCHANGED <<now, ticks, nextSid, msgCount, indexVars, turns>>

\* the sweep that drops the expired sessions but leaves every pointer
cleanupExpiredSessionsKeepPointers ==
    /\ Quiet
    /\ LET expired == {sid \in DOMAIN conversationSessions :
                           IsExpired(conversationSessions[sid], now)}
       IN  /\ conversationSessions' =
                 [sid \in DOMAIN conversationSessions \ expired |->
                     conversationSessions[sid]]
           /\ lastOp' = Op("cleanupExpiredSessions", "", "resolved", 0, 0, <<>>)
           /\ UNCHANGED <<userCurrentSessions, now, ticks, nextSid, msgCount,
                          indexVars, turns>>

\* cleanupExpiredSessions: drop every expired session, and the owner's pointer
\* when it still points at the dropped session
cleanupExpiredSessions ==
    /\ Quiet
    /\ LET expired == {sid \in DOMAIN conversationSessions :
                           IsExpired(conversationSessions[sid], now)}
       IN  /\ conversationSessions' =
                 [sid \in DOMAIN conversationSessions \ expired |->
                     conversationSessions[sid]]
           /\ userCurrentSessions' =
                 [u \in {x \in DOMAIN userCurrentSessions :
                             userCurrentSessions[x] \notin expired} |->
                     userCurrentSessions[u]]
           /\ lastOp' = Op("cleanupExpiredSessions", "", "resolved", 0, 0, <<>>)
           /\ UNCHANGED <<now, ticks, nextSid, msgCount, indexVars, turns>>

\* the reset that forgets to delete the pointer first
startNewConversationKeepPointer(u) ==
    /\ Quiet
    /\ LET prev == MapGet(userCurrentSessions, u)
           g == getCurrentSession(conversationSessions, userCurrentSessions, u)
       IN  /\ nextSid <= MaxSessions
           /\ conversationSessions' = g.sessions
           /\ userCurrentSessions' = g.current
           /\ nextSid' = nextSid + 1
           /\ lastOp' = Op("startNewConversation", u, "resolved", prev, g.sessionId, <<>>)
           /\ UNCHANGED <<now, ticks, msgCount, indexVars, turns>>

\* startNewConversation: forget the pointer, then getCurrentSession makes a
\* fresh session; the old session object stays in the store
startNewConversation(u) ==
    /\ Quiet
    /\ LET prev == MapGet(userCurrentSessions, u)
           g == getCurrentSession(conversationSessions,
                                  MapDelete(userCurrentSessions, u), u)
       IN  /\ nextSid <= MaxSessions
           /\ conversationSessions' = g.sessions
           /\ userCurrentSessions' = g.current
           /\ nextSid' = nextSid + 1
           /\ lastOp' = Op("startNewConversation", u, "resolved", prev, g.sessionId, <<>>)
           /\ UNCHANGED <<now, ticks, msgCount, indexVars, turns>>

\* getRecentMessages(userId, limit): the last `limit` messages of the current
\* session (limit 0 stands for an omitted limit)
getRecentMessages(u, limit) ==
    /\ Quiet
    /\ LET g == getCurrentSession(conversationSessions, userCurrentSessions, u)
           messageLimit == IF limit = 0 THEN MAX_RECENT_MESSAGES ELSE limit
       IN  /\ CanGetSession(userCurrentSessions, conversationSessions, u)
           /\ conversationSessions' = g.sessions
           /\ userCurrentSessions' = g.current
           /\ nextSid' = IF g.created THEN nextSid + 1 ELSE nextSid
           /\ lastOp' = Op("getRecentMessages", u, "resolved", 0, g.sessionId,
                           SliceLast(g.sessions[g.sessionId].messages, messageLimit))
           /\ UNCHANGED <<now, ticks, msgCount, indexVars, turns>>

\* getSessionInfo(userId): null (here the empty record tag) or the summary
getSessionInfo(u) ==
    LET sid == MapGet(userCurrentSessions, u)
    IN  IF sid = 0 \/ sid \notin DOMAIN conversationSessions
        THEN [isNull |-> TRUE, sessionId |-> 0, messageCount |-> 0,
              lastActivity |-> 0]
        ELSE [isNull |-> FALSE,
              sessionId |-> conversationSessions[sid].sessionId,
              messageCount |-> Len(conversationSessions[sid].messages),
              lastActivity |-> conversationSessions[sid].lastActivity]

\* the clock moves on by d hours
Tick(d) ==
    /\ now' = now + d
    /\ ticks' = ticks + 1
    /\ lastOp' = Op("tick", "", "resolved", 0, 0, <<>>)
    /\ UNCHANGED <<sessionVars, indexVars, turns>>


\* ------------------------------------------------------------ vector index
\* an absent metadata field of an id type
Undefined == <<"", 0>>
\* the id of the seed document ('init')
InitId == <<"init", 0>>
\* provider scores in tenths: 0.6 is the threshold itself, 0.7 is above it
Scores == {6, 7}
\* the search limits callers pass
Limits == {1}
\* a query or a chat message, as the sequence of its UTF-16 code units: "q",
\* which is not blank, the empty one, and " \n", which is whitespace only
Queries == {<<113>>, <<>>, <<32, 10>>}

\* the code units String.prototype.trim removes, WhiteSpace and
\* LineTerminator of the language: TAB, LF, VT, FF, CR, SP, NBSP, the other
\* space separators (U+1680, U+2000 to U+200A, U+202F, U+205F, U+3000), LS,
\* PS and ZWNBSP
Whitespace ==
    {9, 10, 11, 12, 13, 32, 160, 5760, 8232, 8233, 8239, 8287, 12288, 65279}
        \cup (8192..8202)

RECURSIVE trimStart(_)
trimStart(s) ==
    IF s # <<>> /\ Head(s) \in Whitespace THEN trimStart(Tail(s)) ELSE s

RECURSIVE trimEnd(_)
trimEnd(s) ==
    IF s # <<>> /\ s[Len(s)] \in Whitespace
    THEN trimEnd(SubSeq(s, 1, Len(s) - 1)) ELSE s

\* query.trim()
trim(s) == trimEnd(trimStart(s))

\* `!query || query.trim().length === 0`
Blank(query) == query = <<>> \/ Len(trim(query)) = 0

\* the messages the chat route lets through: z.string().min(1)
Messages == {m \in Queries : Len(m) >= 1}
\* the numbers of chunks an uploaded document is split into
ChunkCounts == {2}
\* credentialed calls in one run of an index specification
MaxTasks == 2
\* chat messages created in one run of the index specification
MaxIndexMsgs == 2
\* documents uploaded in one run
MaxDocs == 1

\* the seed document HNSWLib.fromTexts is given: metadata { id: 'init' }
Sentinel ==
    [id |-> InitId, userId |-> "", type |-> "", documentId |-> Undefined,
     chunkIndex |-> 0, role |-> ""]

\* the Document _addMessageToStore builds from a chat message
MessageDocument(m) ==
    [id |-> m.id, userId |-> m.userId, type |-> "", documentId |-> Undefined,
     chunkIndex |-> 0, role |-> m.role]

\* the Documents processDocument builds from the n chunks of one upload: the
\* metadata carries no id, but the document id, the chunk index, the number
\* of chunks and the type
ChunkDocuments(u, n) ==
    [i \in 1..n |->
        [id |-> Undefined, userId |-> u, type |-> "document_chunk",
         documentId |-> <<"doc", docCount + 1>>, chunkIndex |-> i - 1,
         totalChunks |-> n, role |-> ""]]

\* the bag of the elements of a sequence
RECURSIVE BagOfSeq(_)
BagOfSeq(seq) ==
    IF seq = <<>> THEN EmptyBag
    ELSE SetToBag({Head(seq)}) (+) BagOfSeq(Tail(seq))

\* a suspended call.  pc is the await it is suspended at: "extract"
\* (pdfParse), "split" (textSplitter.splitText), "build" (HNSWLib.fromTexts),
\* "drain" (Promise.all over the drained inserts), "resume" (the caller's
\* await of _initializeVectorStoreWithKey, which has resolved), "insert"
\* (addDocuments) or "search" (similaritySearchWithScore).  store is
\* the store the insert or search was handed to, or the store a draining call
\* built; waiting is the number of drained inserts not settled yet; parent is
\* the store whose drain an insert belongs to (0: none); turn is the id of
\* the user message of the chat turn that awaits the call (Undefined: none).
Task(op, u, key, pc, store, docs, query, limit, parent, waiting) ==
    [op |-> op, user |-> u, key |-> key, pc |-> pc, store |-> store,
     docs |-> docs, query |-> query, limit |-> limit, parent |-> parent,
     waiting |-> waiting, turn |-> Undefined]

AddTask(tk, t) == tk (+) SetToBag({t})
RemoveTask(tk, t) == tk (-) SetToBag({t})

InsertOps == {"addChatMessage", "addChatMessageSync", "addDocuments",
              "_addMessageToStore"}
SearchOps == {"searchRelevantHistory", "searchRelevantDocuments"}

\* the outcomes when addChatMessage does not catch the background rejection
RejectionOutcomeNoCatch(op) ==
    CASE op \in SearchOps -> "resolved"
      [] OTHER -> "rejected"

\* how a rejection inside the call ends for its caller: addChatMessage catches
\* and logs it in the background, both searches catch it and return [],
\* addChatMessageSync and addDocuments pass it on
RejectionOutcome(op) ==
    CASE op = "addChatMessage" -> "logged"
      [] op \in SearchOps -> "resolved"
      [] OTHER -> "rejected"

\* -------------------------------------------------------------- chat turns
\* the limit searchRelevantHistory defaults to, and the one processChat passes
\* to searchDocuments
DefaultHistoryLimit == 5
ChatDocumentLimit == 3
\* the caps of the three context sections
RecentCap == 8
SemanticCap == 4
DocumentCap == 3

\* a chat turn suspended in processChat.  pc is the await it is suspended at:
\* "context" (Promise.all over getChatContext and searchDocuments) or "llm"
\* (llm.invoke); waiting are the searches not settled yet
Turn(userMessage, key, recentMessages) ==
    [userMessage |-> userMessage, user |-> userMessage.userId, key |-> key,
     pc |-> "context", waiting |-> SearchOps,
     recentMessages |-> recentMessages, relevantHistory |-> <<>>,
     relevantDocuments |-> <<>>, allContext |-> <<>>]

\* chatContext.recentMessages.slice(-8)
recentContext(recentMessages) == SliceLast(recentMessages, RecentCap)

\* chatContext.relevantHistory.filter(id not among recentMessages).slice(0, 4)
semanticContext(relevantHistory, recentMessages) ==
    LET recentIds == {recentMessages[i].id : i \in 1..Len(recentMessages)}
        Keep(doc) == doc.id \notin recentIds
    IN  SliceFirst(SelectSeq(relevantHistory, Keep), SemanticCap)

\* relevantDocuments.slice(0, 3)
documentContext(relevantDocuments) == SliceFirst(relevantDocuments, DocumentCap)

\* one labelled section, or nothing when it has no entry
Section(label, entries) ==
    IF entries = <<>> THEN <<>> ELSE <<[label |-> label, entries |-> entries]>>

\* contextSections: the non-empty sections, in the order Recent, Relevant
\* History, Documents
contextSections(turn) ==
    Section("RECENT CONVERSATION", recentContext(turn.recentMessages))
    \o Section("RELEVANT HISTORY",
               semanticContext(turn.relevantHistory, turn.recentMessages))
    \o Section("DOCUMENTS", documentContext(turn.relevantDocuments))

\* the route's flag: (response.relevantContext?.length ?? 0) > 0
contextUsed(relevantContext) == Len(relevantContext) > 0

\* search op of a turn settles with result: the turn keeps it, and when the
\* other search has settled too it builds the context and calls the model
TurnSettled(turn, op, result) ==
    LET got == [turn EXCEPT
                  !.waiting = @ \ {op},
                  !.relevantHistory =
                      IF op = "searchRelevantHistory" THEN result ELSE @,
                  !.relevantDocuments =
                      IF op = "searchRelevantDocuments" THEN result ELSE @]
    IN  IF got.waiting = {}
        THEN [got EXCEPT !.pc = "llm", !.allContext = contextSections(got)]
        ELSE got

\* the turns after call t has settled with result: the turn that awaits t, if
\* there is one, goes on
Settle(tn, t, result) ==
    {IF turn.userMessage.id = t.turn THEN TurnSettled(turn, t.op, result)
     ELSE turn : turn \in tn}

\* the number of candidates a search asks of similaritySearchWithScore
Candidates(op, query, limit) ==
    IF op = "searchRelevantDocuments" /\ Blank(query) THEN limit * 5 ELSE limit * 2

\* the statement after `if (!this.vectorStore) await _initializeVectorStoreWithKey`
\* of call t, run with handle vs: the insert or the search is handed to the
\* store the handle names now, or the history search with a blank query
\* returns [].  tk are the other suspended calls.  The credential is not read
\* again, so the suspended call no longer carries it.
AfterInit(t, tk, vs) ==
    IF t.op = "searchRelevantHistory" /\ Blank(t.query)
    THEN /\ tasks' = tk
         /\ lastOp' = Op(t.op, t.user, "resolved", 0, 0, <<>>)
    ELSE /\ tasks' = AddTask(tk,
                [t EXCEPT !.pc = IF t.op \in SearchOps THEN "search" ELSE "insert",
                          !.store = vs, !.key = NoKey, !.waiting = 0])
         /\ lastOp' = Op("_initializeVectorStoreWithKey", "", "resolved", 0, 0, <<>>)

\* the turns after call t has gone on behind the build: the history search of
\* a turn with a blank query returns [] there and the turn keeps it
Resumed(t) ==
    IF t.op = "searchRelevantHistory" /\ Blank(t.query)
    THEN Settle(turns, t, <<>>)
    ELSE turns

\* _initializeVectorStoreWithKey of call t rejected (the build, or one drained
\* insert): the call ends as RejectionOutcome says
InitFailed(t, tk) ==
    /\ tasks' = tk
    /\ lastOp' = Op(t.op, "", RejectionOutcome(t.op), 0, 0, <<>>)
    /\ turns' = Settle(turns, t, <<>>)

\* the call that builds an index whether or not the handle is set
EnsureStoreAlways(op, u, key, docs, query, limit) ==
    LET t == Task(op, u, key, "build", 0, docs, query, limit, 0, 0)
    IN  /\ nextTask' = nextTask + 1
        /\ tasks' = AddTask(tasks, t)
        /\ builds' = builds + 1
        /\ lastOp' = Op(op, "", "pending", 0, 0, <<>>)

\* a credentialed call reaches `if (!this.vectorStore)`: it starts a build when
\* the handle is null, and goes on with the handle otherwise
EnsureStore(op, u, key, docs, query, limit) ==
    LET t == Task(op, u, key, "build", 0, docs, query, limit, 0, 0)
    IN  /\ nextTask' = nextTask + 1
        /\ IF vectorStore = 0
           THEN /\ tasks' = AddTask(tasks, t)
                /\ builds' = builds + 1
                /\ lastOp' = Op(op, "", "pending", 0, 0, <<>>)
           ELSE /\ AfterInit(t, tasks, vectorStore)
                /\ builds' = builds

\* _addMessageToStore(message, userApiKey) up to its first await, called from
\* the call named op: without a credential the message is queued; with one the
\* store is ensured and the insert handed to it
addMessageToStore(op, message, key) ==
    IF key = NoKey
    THEN /\ pendingMessages' = Append(pendingMessages, message)
         /\ lastOp' = Op(op, "", "resolved", 0, 0, <<>>)
         /\ UNCHANGED <<vectorStore, stores, tasks, nextTask, builds, docCount>>
    ELSE /\ EnsureStore(op, message.userId, key, <<MessageDocument(message)>>,
                        NoQuery, 0)
         /\ UNCHANGED <<vectorStore, stores, pendingMessages, docCount>>

\* addChatMessage(message, userApiKey): the session part; without a credential
\* it returns there, with one it starts _addMessageToStore in the background
addChatMessage(u, role, key) ==
    /\ Quiet
    /\ LET message == createChatMessage(role, u)
       IN  /\ CanGetSession(userCurrentSessions, conversationSessions, u)
           /\ AppendToSession(message)
           /\ IF key = NoKey
              THEN /\ lastOp' = Op("addChatMessage", "", "resolved", 0, 0, <<>>)
                   /\ UNCHANGED indexVars
              ELSE addMessageToStore("addChatMessage", message, key)
           /\ UNCHANGED <<clockVars, turns>>

\* addChatMessageSync(message, userApiKey): the same, but the caller awaits
\* _addMessageToStore
addChatMessageSync(u, role, key) ==
    /\ Quiet
    /\ LET message == createChatMessage(role, u)
       IN  /\ CanGetSession(userCurrentSessions, conversationSessions, u)
           /\ AppendToSession(message)
           /\ IF key = NoKey
              THEN /\ lastOp' = Op("addChatMessageSync", "", "resolved", 0, 0, <<>>)
                   /\ UNCHANGED indexVars
              ELSE addMessageToStore("addChatMessageSync", message, key)
           /\ UNCHANGED <<clockVars, turns>>

\* error messages, as the sequence of their parts
KeyRequired == "OpenAI API key is required"

\* message.includes(part)
Includes(message, part) == \E i \in 1..Len(message) : message[i] = part

\* the message of the error addDocuments throws without a credential
ErrEmbeddingsKeyRequired ==
    <<KeyRequired, " for document embeddings. Please provide your API key.">>

\* addDocuments(documents, userApiKey) up to its first await
addDocuments(u, n, key) ==
    /\ Quiet
    /\ IF key = NoKey
       THEN /\ lastOp' = Op("addDocuments", "", "rejected", 0, 0,
                            ErrEmbeddingsKeyRequired)
            /\ UNCHANGED indexVars
       ELSE /\ EnsureStore("addDocuments", u, key, ChunkDocuments(u, n), NoQuery, 0)
            /\ docCount' = docCount + 1
            /\ UNCHANGED <<vectorStore, stores, pendingMessages>>
    /\ UNCHANGED <<sessionVars, clockVars, turns>>

\* ------------------------------------------- document ingestion (part_007)
\* the most chunks the text splitter returns for one text
MaxChunks == 2
\* the two supported file types and an unsupported one
MimeTypes == {"text/plain", "application/pdf", "image/png"}
\* the file types processDocument has a case for
SupportedTypes == {"text/plain", "application/pdf"}

Min(a, b) == IF a <= b THEN a ELSE b

\* the message of the error processDocument throws without a credential
ErrDocumentKeyRequired ==
    <<KeyRequired, " for document processing. Please provide your API key.">>

\* the message of the error of the default case of the switch on the file type
ErrUnsupportedType(mimetype) == <<"Unsupported file type: ", mimetype>>

\* what pdfParse says when it rejects
ErrPdfParse == <<"pdfParse rejected">>

\* a value thrown: an Error with its message, or a value that is no Error (a
\* string, say)
ErrorOf(message) == [isError |-> TRUE, message |-> message]

NonError(value) == [isError |-> FALSE, message |-> value]

\* the values pdfParse may reject with: the library decides
PdfParseRejections == {ErrorOf(ErrPdfParse), NonError(ErrPdfParse)}

\* the catch of processDocument: a new error is thrown whose message is a
\* fixed prefix and then the message of the Error caught, or 'Unknown error'
\* when the value caught is no Error
documentError(thrown) ==
    <<"Document processing failed: ">>
        \o (IF thrown.isError THEN thrown.message ELSE <<"Unknown error">>)

\* processDocument rejects with the error its catch made of the value
\* thrown; items is the message
documentRejected(thrown) ==
    Op("processDocument", "", "rejected", 0, 0, documentError(thrown))

\* processDocument suspended at the await named pc: "extract" for
\* `await pdfParse(file.buffer)`, "split" for
\* `await this.textSplitter.splitText(text)`
Ingestion(u, key, pc) ==
    Task("processDocument", u, key, pc, 0, <<>>, NoQuery, 0, 0, 0)

\* processDocument that looks at the file type before it asks for the
\* credential
processDocumentTypeFirst(u, mimetype, key) ==
    /\ Quiet
    /\ IF mimetype \notin SupportedTypes
       THEN /\ lastOp' = documentRejected(ErrorOf(ErrUnsupportedType(mimetype)))
            /\ UNCHANGED indexVars
       ELSE IF key = NoKey
       THEN /\ lastOp' = documentRejected(ErrorOf(ErrDocumentKeyRequired))
            /\ UNCHANGED indexVars
       ELSE /\ tasks' = AddTask(tasks,
                           Ingestion(u, key, IF mimetype = "application/pdf"
                                             THEN "extract" ELSE "split"))
            /\ nextTask' = nextTask + 1
            /\ lastOp' = Op("processDocument", "", "pending", 0, 0, <<>>)
            /\ UNCHANGED <<vectorStore, stores, pendingMessages, builds,
                           docCount>>
    /\ UNCHANGED <<sessionVars, clockVars, turns>>

\* processDocument(file, userId, userApiKey) up to its first await: the
\* credential is checked, then the file type.  With a text/plain file the call
\* waits for splitText, with an application/pdf file for pdfParse; the index
\* handle is not read yet.  Every error thrown is caught and thrown again as
\* 'Document processing failed: ...'
processDocument(u, mimetype, key) ==
    /\ Quiet
    /\ IF key = NoKey
       THEN /\ lastOp' = documentRejected(ErrorOf(ErrDocumentKeyRequired))
            /\ UNCHANGED indexVars
       ELSE IF mimetype \notin SupportedTypes
       THEN /\ lastOp' = documentRejected(ErrorOf(ErrUnsupportedType(mimetype)))
            /\ UNCHANGED indexVars
       ELSE /\ tasks' = AddTask(tasks,
                           Ingestion(u, key, IF mimetype = "application/pdf"
                                             THEN "extract" ELSE "split"))
            /\ nextTask' = nextTask + 1
            /\ lastOp' = Op("processDocument", "", "pending", 0, 0, <<>>)
            /\ UNCHANGED <<vectorStore, stores, pendingMessages, builds,
                           docCount>>
    /\ UNCHANGED <<sessionVars, clockVars, turns>>

\* pdfParse of call t resolves with the text: the call goes on to
\* `await this.textSplitter.splitText(text)`
PdfParseOk(t) ==
    /\ t.pc = "extract"
    /\ tasks' = AddTask(RemoveTask(tasks, t), [t EXCEPT !.pc = "split"])
    /\ lastOp' = Op("pdfParse", "", "resolved", 0, 0, <<>>)
    /\ UNCHANGED <<sessionVars, clockVars, turns, vectorStore, stores,
                   pendingMessages, nextTask, builds, docCount>>

\* pdfParse of call t rejects with thrown: the call ends as rejected, nothing
\* is indexed
PdfParseFail(t, thrown) ==
    /\ t.pc = "extract"
    /\ tasks' = RemoveTask(tasks, t)
    /\ lastOp' = documentRejected(thrown)
    /\ UNCHANGED <<sessionVars, clockVars, turns, vectorStore, stores,
                   pendingMessages, nextTask, builds, docCount>>

\* splitText of call t resolves with n chunks, as many as the splitter made of
\* the text: they are tagged with the document id, their index and their
\* number and handed to addDocuments, which refuses a missing credential and
\* only now reads the index handle: it starts a build when the handle is
\* null and goes on with the handle otherwise
SplitTextOk(t, n) ==
    LET c == [t EXCEPT !.pc = "build", !.docs = ChunkDocuments(t.user, n)]
        tk == RemoveTask(tasks, t)
    IN  /\ t.pc = "split"
        /\ IF t.key = NoKey
           THEN /\ tasks' = tk
                /\ lastOp' = documentRejected(ErrorOf(ErrEmbeddingsKeyRequired))
                /\ builds' = builds
           ELSE IF vectorStore = 0
           THEN /\ tasks' = AddTask(tk, c)
                /\ builds' = builds + 1
                /\ lastOp' = Op("processDocument", "", "pending", 0, 0, <<>>)
           ELSE /\ AfterInit(c, tk, vectorStore)
                /\ builds' = builds
        /\ docCount' = docCount + 1
        /\ UNCHANGED <<sessionVars, clockVars, turns, vectorStore, stores,
                       pendingMessages, nextTask>>

\* searchRelevantHistory / searchRelevantDocuments up to the first await
search(op, query, u, key, limit) ==
    /\ Quiet
    /\ IF key = NoKey
       THEN /\ lastOp' = Op(op, u, "resolved", 0, 0, <<>>)
            /\ UNCHANGED indexVars
       ELSE /\ EnsureStore(op, u, key, <<>>, query, limit)
            /\ UNCHANGED <<vectorStore, stores, pendingMessages, docCount>>
    /\ UNCHANGED <<sessionVars, clockVars, turns>>

searchRelevantHistory(query, u, key, limit) ==
    search("searchRelevantHistory", query, u, key, limit)

searchRelevantDocuments(query, u, key, limit) ==
    search("searchRelevantDocuments", query, u, key, limit)

\* the entries of a store: every document, once per copy stored
Entries(items) ==
    {e \in BagToSet(items) \X (1..BagCardinality(items)) :
        e[2] <= CopiesIn(e[1], items)}

\* the ways to rank m distinct entries
Rankings(entries, m) ==
    {r \in [1..m -> entries] : \A i, j \in 1..m : i # j => r[i] # r[j]}

\* HNSWLib.similaritySearchWithScore(query, k): min(k, size) distinct entries
\* of the store, each with a score; which ones, in which order and with which
\* scores is decided by the embeddings the provider returned
similaritySearchWithScore(items, k) ==
    LET m == Min(k, BagCardinality(items))
    IN  {[i \in 1..m |-> [doc |-> r[i][1], score |-> sc[i]]] :
            r \in Rankings(Entries(items), m), sc \in [1..m -> Scores]}

\* the history filter without the test of the owner
HistoryFilterAnyUser(doc, score, userId) ==
    /\ score > 6
    /\ doc.id # InitId

\* the filter of searchRelevantHistory: the user's own, above 0.6, not the seed
HistoryFilter(doc, score, userId) ==
    /\ doc.userId = userId
    /\ score > 6
    /\ doc.id # InitId

\* the document filters without the test of the score
DocumentsFilterNoThreshold(doc, score, userId, query) ==
    /\ doc.userId = userId
    /\ doc.type = "document_chunk"

\* the filters of searchRelevantDocuments: the user's own document chunks,
\* above 0.6 unless the query is empty
DocumentsFilter(doc, score, userId, query) ==
    /\ doc.userId = userId
    /\ doc.type = "document_chunk"
    /\ (~Blank(query) => score > 6)

\* results.filter(...), cut to the first `limit` entries: the [doc, score]
\* pairs of the documents the search returns
ScoredResults(op, query, results, userId, limit) ==
    LET Keep(e) == IF op = "searchRelevantHistory"
                   THEN HistoryFilter(e.doc, e.score, userId)
                   ELSE DocumentsFilter(e.doc, e.score, userId, query)
    IN  SliceFirst(SelectSeq(results, Keep), limit)

\* results.filter(...).map(([doc]) => doc).slice(0, limit)
SearchResults(op, query, results, userId, limit) ==
    LET kept == ScoredResults(op, query, results, userId, limit)
    IN  [i \in 1..Len(kept) |-> kept[i].doc]

\* ------------------------------------------------- provider continuations
\* HNSWLib.fromTexts of call t resolves: the handle is set to the new store,
\* the pending queue is taken and emptied and every taken message handed to
\* the new store, or (empty queue) the build returns to the call that awaits it
BuildOk(t) ==
    LET s == Len(stores) + 1
        n == Len(pendingMessages)
        child(i) == Task("_addMessageToStore", pendingMessages[i].userId, NoKey,
                         "insert", s, <<MessageDocument(pendingMessages[i])>>,
                         NoQuery, 0, s, 0)
    IN  /\ t.pc = "build"
        /\ stores' = Append(stores,
                        [key |-> t.key, items |-> SetToBag({Sentinel})])
        /\ vectorStore' = s
        /\ IF n > 0
           THEN /\ pendingMessages' = <<>>
                /\ tasks' = AddTask(RemoveTask(tasks, t),
                                    [t EXCEPT !.pc = "drain", !.store = s,
                                              !.waiting = n])
                            (+) BagOfSeq([i \in 1..n |-> child(i)])
                /\ lastOp' = Op("_initializeVectorStoreWithKey", "", "pending", 0, 0,
                                <<>>)
           ELSE /\ tasks' = AddTask(RemoveTask(tasks, t),
                                    [t EXCEPT !.pc = "resume"])
                /\ lastOp' = Op("_initializeVectorStoreWithKey", "", "resolved",
                                0, 0, <<>>)
                /\ UNCHANGED pendingMessages
        /\ UNCHANGED <<sessionVars, clockVars, turns, nextTask, builds,
                       docCount>>

\* the call that awaited _initializeVectorStoreWithKey goes on, a microtask
\* after the build returned: it reads the handle now, which a build settled in
\* the same turn may have set again
Resume(t) ==
    /\ t.pc = "resume"
    /\ AfterInit(t, RemoveTask(tasks, t), vectorStore)
    /\ turns' = Resumed(t)
    /\ UNCHANGED <<sessionVars, clockVars, vectorStore, stores,
                   pendingMessages, nextTask, builds, docCount>>

\* the failed build that leaves a broken store behind the handle
BuildFailPoisons(t) ==
    /\ t.pc = "build"
    /\ InitFailed(t, RemoveTask(tasks, t))
    /\ stores' = Append(stores, [key |-> t.key, items |-> EmptyBag])
    /\ vectorStore' = Len(stores) + 1
    /\ UNCHANGED <<sessionVars, clockVars, pendingMessages, nextTask, builds,
                   docCount>>

\* HNSWLib.fromTexts of call t rejects: the handle stays as it is
BuildFail(t) ==
    /\ t.pc = "build"
    /\ InitFailed(t, RemoveTask(tasks, t))
    /\ UNCHANGED <<sessionVars, clockVars, vectorStore, stores,
                   pendingMessages, nextTask, builds, docCount>>

\* the calls that await Promise.all over the drained inserts insert t is one
\* of (none, or the one call that built t's store and still waits)
DrainParents(t, tk) ==
    {p \in BagToSet(tk) : t.parent # 0 /\ p.pc = "drain" /\ p.store = t.parent}

\* addDocuments on the store the call was handed to resolves: the documents
\* are in that store; the last drained insert lets the draining call go on
InsertOk(t) ==
    LET tk == RemoveTask(tasks, t)
        ps == DrainParents(t, tk)
        p == CHOOSE x \in ps : TRUE
    IN  /\ t.pc = "insert"
        /\ stores' = [stores EXCEPT ![t.store].items = @ (+) BagOfSeq(t.docs)]
        /\ IF ps = {}
           THEN /\ tasks' = tk
                /\ lastOp' = Op(t.op, "", "resolved", 0, 0, <<>>)
           ELSE IF p.waiting = 1
                THEN /\ tasks' = AddTask(RemoveTask(tk, p),
                                         [p EXCEPT !.pc = "resume",
                                                   !.waiting = 0])
                     /\ lastOp' = Op(t.op, "", "resolved", 0, 0, <<>>)
                ELSE /\ tasks' = AddTask(RemoveTask(tk, p),
                                         [p EXCEPT !.waiting = @ - 1])
                     /\ lastOp' = Op(t.op, "", "resolved", 0, 0, <<>>)
        /\ UNCHANGED <<sessionVars, clockVars, turns, vectorStore,
                       pendingMessages, nextTask, builds, docCount>>

\* addDocuments rejects (provider error): nothing is inserted; a drained
\* insert that rejects makes the draining call reject
InsertFail(t) ==
    LET tk == RemoveTask(tasks, t)
        ps == DrainParents(t, tk)
        p == CHOOSE x \in ps : TRUE
    IN  /\ t.pc = "insert"
        /\ IF ps = {}
           THEN /\ tasks' = tk
                /\ lastOp' = Op(t.op, "", RejectionOutcome(t.op), 0, 0, <<>>)
                /\ UNCHANGED turns
           ELSE InitFailed(p, RemoveTask(tk, p))
        /\ UNCHANGED <<sessionVars, clockVars, vectorStore, stores,
                       pendingMessages, nextTask, builds, docCount>>

\* similaritySearchWithScore resolves: filter, map, slice
SearchOk(t) ==
    /\ t.pc = "search"
    /\ \E results \in similaritySearchWithScore(stores[t.store].items,
                          Candidates(t.op, t.query, t.limit)) :
          LET docs == SearchResults(t.op, t.query, results, t.user, t.limit)
              kept == ScoredResults(t.op, t.query, results, t.user, t.limit)
          IN  /\ lastOp' = [Op(t.op, t.user, "resolved", 0, 0, docs) EXCEPT
                               !.scores = [i \in 1..Len(kept) |-> kept[i].score],
                               !.query = t.query]
              /\ turns' = Settle(turns, t, docs)
    /\ tasks' = RemoveTask(tasks, t)
    /\ UNCHANGED <<sessionVars, clockVars, vectorStore, stores,
                   pendingMessages, nextTask, builds, docCount>>

\* similaritySearchWithScore rejects: caught, [] returned
SearchFail(t) ==
    /\ t.pc = "search"
    /\ lastOp' = Op(t.op, t.user, "resolved", 0, 0, <<>>)
    /\ turns' = Settle(turns, t, <<>>)
    /\ tasks' = RemoveTask(tasks, t)
    /\ UNCHANGED <<sessionVars, clockVars, vectorStore, stores,
                   pendingMessages, nextTask, builds, docCount>>

\* a credentialed call of a chat turn at `if (!this.vectorStore)`: suspended
\* at the build when the handle is null, at the store the handle names
\* otherwise
Suspended(t) ==
    IF vectorStore = 0 THEN t
    ELSE [t EXCEPT !.pc = IF t.op \in SearchOps THEN "search" ELSE "insert",
                   !.store = vectorStore, !.key = NoKey]

\* error messages, as the sequence of their parts: includes() of the route
\* looks for one part
ErrKeyRequired == <<KeyRequired, ". Please provide your API key in settings.">>

ErrModel == <<"llm.invoke rejected">>

ErrChatFailed == <<"Failed to process chat message">>

\* the catch of processChat: whatever was thrown inside, a new error with the
\* fixed message is thrown
processChatError(cause) == ErrChatFailed

\* the catch of the chat route: status and code from the message of the error
chatRouteError(message) ==
    IF Includes(message, KeyRequired)
    THEN [status |-> 400, code |-> "API_KEY_REQUIRED"]
    ELSE [status |-> 500, code |-> ""]

\* a rejected chat request reports the status of the response in ret and the
\* message of the error processChat threw in items
chatRejected(u, cause) ==
    Op("processChat", u, "rejected", 0,
       chatRouteError(processChatError(cause)).status, processChatError(cause))

\* processChat(request) up to its first await on the provider; message is
\* request.message, which the searches take as their query.  The user
\* message is created; getChatContext starts the history search with the
\* message as its query and reads the recent messages; searchDocuments starts
\* the document search with the same query.  With the handle set the history
\* search of a blank message returns [] without a call of the provider.
processChat(u, key, message) ==
    /\ Quiet
    /\ IF key = NoKey
       THEN /\ lastOp' = chatRejected(u, ErrKeyRequired)
            /\ UNCHANGED <<sessionVars, clockVars, indexVars, turns>>
       ELSE LET userMessage == createChatMessage("user", u)
                g == getCurrentSession(conversationSessions, userCurrentSessions, u)
                recentMessages == SliceLast(g.sessions[g.sessionId].messages,
                                            MAX_RECENT_MESSAGES)
                call(op, limit) ==
                    Suspended([Task(op, u, key, "build", 0, <<>>, message, limit,
                                    0, 0)
                                  EXCEPT !.turn = userMessage.id])
                returnsAtOnce == vectorStore # 0 /\ Blank(message)
                turn == Turn(userMessage, key, recentMessages)
                documents == AddTask(tasks, call("searchRelevantDocuments",
                                                 ChatDocumentLimit))
            IN  /\ CanGetSession(userCurrentSessions, conversationSessions, u)
                /\ msgCount' = [msgCount EXCEPT ![u] = @ + 1]
                /\ conversationSessions' = g.sessions
                /\ userCurrentSessions' = g.current
                /\ nextSid' = IF g.created THEN nextSid + 1 ELSE nextSid
                /\ tasks' = IF returnsAtOnce THEN documents
                            ELSE AddTask(documents,
                                     call("searchRelevantHistory",
                                          DefaultHistoryLimit))
                /\ nextTask' = IF returnsAtOnce THEN nextTask + 1 ELSE nextTask + 2
                /\ builds' = IF vectorStore = 0 THEN builds + 2 ELSE builds
                /\ turns' = turns \cup
                      {IF returnsAtOnce
                       THEN TurnSettled(turn, "searchRelevantHistory", <<>>)
                       ELSE turn}
                /\ lastOp' = Op("processChat", u, "pending", 0, 0, <<>>)
                /\ UNCHANGED <<clockVars, vectorStore, stores, pendingMessages,
                               docCount>>

\* the completion that appends the reply before the user message
LlmOkAssistantFirst(turn) ==
    LET u == turn.user
        assistantMessage == createChatMessage("assistant", u)
        g == getCurrentSession(conversationSessions, userCurrentSessions, u)
        s == g.sessions[g.sessionId]
        first == TrimMessages(Append(s.messages, assistantMessage))
        second == TrimMessages(Append(first, turn.userMessage))
        insert(m) ==
            Suspended(Task("addChatMessage", u, turn.key, "build", 0,
                           <<MessageDocument(m)>>, NoQuery, 0, 0, 0))
    IN  /\ turn.pc = "llm"
        /\ CanGetSession(userCurrentSessions, conversationSessions, u)
        /\ msgCount' = [msgCount EXCEPT ![u] = @ + 1]
        /\ conversationSessions' =
              [g.sessions EXCEPT ![g.sessionId] =
                  [s EXCEPT !.messages = second, !.lastActivity = now]]
        /\ userCurrentSessions' = g.current
        /\ nextSid' = IF g.created THEN nextSid + 1 ELSE nextSid
        /\ tasks' = AddTask(AddTask(tasks, insert(turn.userMessage)),
                            insert(assistantMessage))
        /\ nextTask' = nextTask + 2
        /\ builds' = IF vectorStore = 0 THEN builds + 2 ELSE builds
        /\ turns' = turns \ {turn}
        /\ lastOp' = Op("processChat", u, "resolved", 0, 0, turn.allContext)
        /\ UNCHANGED <<clockVars, vectorStore, stores, pendingMessages,
                       docCount>>

\* llm.invoke of a turn resolves: the assistant message is created, both
\* messages are appended to the current session and handed to the index in
\* the background, and the turn returns its context sections
LlmOk(turn) ==
    LET u == turn.user
        assistantMessage == createChatMessage("assistant", u)
        g == getCurrentSession(conversationSessions, userCurrentSessions, u)
        s == g.sessions[g.sessionId]
        first == TrimMessages(Append(s.messages, turn.userMessage))
        second == TrimMessages(Append(first, assistantMessage))
        insert(m) ==
            Suspended(Task("addChatMessage", u, turn.key, "build", 0,
                           <<MessageDocument(m)>>, NoQuery, 0, 0, 0))
    IN  /\ turn.pc = "llm"
        /\ CanGetSession(userCurrentSessions, conversationSessions, u)
        /\ msgCount' = [msgCount EXCEPT ![u] = @ + 1]
        /\ conversationSessions' =
              [g.sessions EXCEPT ![g.sessionId] =
                  [s EXCEPT !.messages = second, !.lastActivity = now]]
        /\ userCurrentSessions' = g.current
        /\ nextSid' = IF g.created THEN nextSid + 1 ELSE nextSid
        /\ tasks' = AddTask(AddTask(tasks, insert(turn.userMessage)),
                            insert(assistantMessage))
        /\ nextTask' = nextTask + 2
        /\ builds' = IF vectorStore = 0 THEN builds + 2 ELSE builds
        /\ turns' = turns \ {turn}
        /\ lastOp' = Op("processChat", u, "resolved", 0, 0, turn.allContext)
        /\ UNCHANGED <<clockVars, vectorStore, stores, pendingMessages,
                       docCount>>

\* the failure that still appends the user message of the turn
LlmFailKeepsUserMessage(turn) ==
    LET g == getCurrentSession(conversationSessions, userCurrentSessions,
                               turn.user)
        s == g.sessions[g.sessionId]
    IN  /\ turn.pc = "llm"
        /\ CanGetSession(userCurrentSessions, conversationSessions, turn.user)
        /\ conversationSessions' =
              [g.sessions EXCEPT ![g.sessionId] =
                  [s EXCEPT !.messages =
                                TrimMessages(Append(s.messages, turn.userMessage)),
                            !.lastActivity = now]]
        /\ userCurrentSessions' = g.current
        /\ nextSid' = IF g.created THEN nextSid + 1 ELSE nextSid
        /\ turns' = turns \ {turn}
        /\ lastOp' = chatRejected(turn.user, ErrModel)
        /\ UNCHANGED <<msgCount, clockVars, indexVars>>

\* llm.invoke of a turn rejects: the turn rejects, its user message is in no
\* session and in no index
LlmFail(turn) ==
    /\ turn.pc = "llm"
    /\ turns' = turns \ {turn}
    /\ lastOp' = chatRejected(turn.user, ErrModel)
    /\ UNCHANGED <<sessionVars, clockVars, indexVars>>

\* ---------------------------------------------------------- specifications
Init ==
    /\ conversationSessions = <<>>
    /\ userCurrentSessions = <<>>
    /\ now = 0
    /\ ticks = 0
    /\ nextSid = 1
    /\ msgCount = [u \in Users |-> 0]
    /\ lastOp = Op("constructor", "", "resolved", 0, 0, <<>>)
    /\ vectorStore = 0
    /\ stores = <<>>
    /\ pendingMessages = <<>>
    /\ tasks = EmptyBag
    /\ nextTask = 1
    /\ builds = 0
    /\ docCount = 0
    /\ turns = {}

RECURSIVE SumOver(_, _)
SumOver(f, S) ==
    IF S = {} THEN 0
    ELSE LET x == CHOOSE y \in S : TRUE IN f[x] + SumOver(f, S \ {x})

TotalMsgs == SumOver(msgCount, Users)

\* the index under construction: one user's calls with either credential or
\* none racing at the provider
Next ==
    \/ \E u \in {"u1"}, key \in Keys \cup {NoKey} :
          /\ nextTask <= MaxTasks /\ TotalMsgs < MaxIndexMsgs
          /\ addChatMessage(u, "user", key)
    \/ \E u \in {"u1"}, key \in Keys \cup {NoKey} :
          /\ nextTask <= MaxTasks /\ TotalMsgs < MaxIndexMsgs
          /\ addChatMessageSync(u, "user", key)
    \/ \E u \in {"u1"}, n \in ChunkCounts, key \in Keys \cup {NoKey} :
          /\ nextTask <= MaxTasks /\ docCount < MaxDocs
          /\ addDocuments(u, n, key)
    \/ \E u \in {"u1"}, key \in Keys \cup {NoKey}, limit \in Limits :
          /\ nextTask <= MaxTasks
          /\ searchRelevantHistory(<<113>>, u, key, limit)
    \/ \E u \in {"u1"}, key \in Keys \cup {NoKey}, limit \in Limits :
          /\ nextTask <= MaxTasks
          /\ searchRelevantDocuments(<<113>>, u, key, limit)
    \/ \E t \in BagToSet(tasks) : BuildOk(t)
    \/ \E t \in BagToSet(tasks) : Resume(t)
    \/ \E t \in BagToSet(tasks) : BuildFail(t)
    \/ \E t \in BagToSet(tasks) : InsertOk(t)
    \/ \E t \in BagToSet(tasks) : InsertFail(t)
    \/ \E t \in BagToSet(tasks) : SearchOk(t)
    \/ \E t \in BagToSet(tasks) : SearchFail(t)

Spec == Init /\ [][Next]_vars

\* the index in use: inserts and searches of both users under one credential,
\* with every query
NextSearch ==
    \/ \E u \in Users :
          /\ nextTask <= MaxTasks /\ TotalMsgs < MaxIndexMsgs
          /\ addChatMessage(u, "user", "k1")
    \/ \E u \in Users, n \in ChunkCounts :
          /\ nextTask <= MaxTasks /\ docCount < MaxDocs
          /\ addDocuments(u, n, "k1")
    \/ \E q \in Queries, u \in Users, limit \in Limits :
          /\ nextTask <= MaxTasks
          /\ searchRelevantHistory(q, u, "k1", limit)
    \/ \E q \in Queries, u \in Users, limit \in Limits :
          /\ nextTask <= MaxTasks
          /\ searchRelevantDocuments(q, u, "k1", limit)
    \/ \E t \in BagToSet(tasks) : BuildOk(t)
    \/ \E t \in BagToSet(tasks) : Resume(t)
    \/ \E t \in BagToSet(tasks) : BuildFail(t)
    \/ \E t \in BagToSet(tasks) : InsertOk(t)
    \/ \E t \in BagToSet(tasks) : InsertFail(t)
    \/ \E t \in BagToSet(tasks) : SearchOk(t)
    \/ \E t \in BagToSet(tasks) : SearchFail(t)

SpecSearch == Init /\ [][NextSearch]_vars

\* the session store under the clock: a few appends, resets, reads, clock
\* advances around the maximum session age, and the sweep
NextSession ==
    \/ \E u \in Users, key \in {NoKey} :
          TotalMsgs < MaxSessionMsgs /\ addChatMessage(u, "user", key)
    \/ \E u \in Users : startNewConversation(u)
    \/ \E u \in Users, limit \in {0, 1} : getRecentMessages(u, limit)
    \/ cleanupExpiredSessions
    \/ \E d \in TickSteps : ticks < MaxTicks /\ Tick(d)

SpecSession == Init /\ [][NextSession]_vars

\* appends of a run of the sweep specification
MaxSweepMsgs == 1

\* appends, resets and the clock with the hourly timer of startSessionCleanup: setInterval
\* keeps firing the sweep, so a sweep that has something to remove is not
\* put off forever
NextSweep ==
    \/ \E u \in Users :
          TotalMsgs < MaxSweepMsgs /\ addChatMessage(u, "user", NoKey)
    \/ \E u \in {"u1"} : startNewConversation(u)
    \/ cleanupExpiredSessions
    \/ \E d \in TickSteps : ticks < MaxTicks /\ Tick(d)

SpecSweep == Init /\ [][NextSweep]_vars /\ WF_vars(cleanupExpiredSessions)

\* messages a user creates in the long run: one user's run is long
MsgCap(u) == IF u = "u1" THEN MaxMsgs ELSE MaxSessionMsgs

\* the session store over a long run: appends past the cap of the message
\* list, interleaved with resets, reads and the sweep
NextTrim ==
    \/ \E u \in Users :
          msgCount[u] < MsgCap(u) /\ addChatMessage(u, "user", NoKey)
    \/ \E u \in Users :
          msgCount[u] < MsgCap(u) /\ addChatMessageSync(u, "user", NoKey)
    \/ \E u \in Users : startNewConversation(u)
    \/ \E u \in Users : getRecentMessages(u, 0)
    \/ cleanupExpiredSessions

SpecTrim == Init /\ [][NextTrim]_vars

\* one session growing past its cap while the clock moves on: appends and
\* reads of one user, no reset and no sweep
NextAppend ==
    \/ \E u \in {"u1"} :
          msgCount[u] < MaxMsgs /\ addChatMessage(u, "user", NoKey)
    \/ \E u \in {"u1"} :
          msgCount[u] < MaxMsgs /\ addChatMessageSync(u, "user", NoKey)
    \/ \E u \in {"u1"} : getRecentMessages(u, 0)
    \/ \E d \in {1} : ticks < MaxTicks /\ Tick(d)

SpecAppend == Init /\ [][NextAppend]_vars


\* document ingestion: one user's uploads of files of every type, with and
\* without a credential, the texts cut into no, one or more chunks, and the
\* provider's answers
NextIngest ==
    \/ \E u \in {"u1"}, mimetype \in MimeTypes, key \in {"k1", NoKey} :
          /\ nextTask <= MaxTasks
          /\ processDocument(u, mimetype, key)
    \/ \E u \in {"u1"}, n \in ChunkCounts :
          addDocuments(u, n, NoKey)
    \/ \E t \in BagToSet(tasks) : PdfParseOk(t)
    \/ \E t \in BagToSet(tasks), thrown \in PdfParseRejections :
          PdfParseFail(t, thrown)
    \/ \E t \in BagToSet(tasks), n \in 0..MaxChunks : SplitTextOk(t, n)
    \/ \E t \in BagToSet(tasks) : BuildOk(t)
    \/ \E t \in BagToSet(tasks) : Resume(t)
    \/ \E t \in BagToSet(tasks) : BuildFail(t)
    \/ \E t \in BagToSet(tasks) : InsertOk(t)
    \/ \E t \in BagToSet(tasks) : InsertFail(t)

SpecIngest == Init /\ [][NextIngest]_vars

\* chat turns in flight at once
MaxTurns == 2
\* messages created in one run of a chat specification before the last turn starts
MaxChatMsgs == 3
\* documents one index holds, the seed among them, before an insert into it
\* can still succeed
MaxIndexed == 2

\* the number of documents in store s
StoreSize(s) == BagCardinality(stores[s].items)

\* clock advances in one run of the chat specification
MaxChatTicks == 1

\* chat turns of one user racing at the model while the clock moves on, with
\* reads of the recent messages in between; the provider answers every call
NextChat ==
    \/ \E u \in {"u1"}, key \in {"k1", NoKey}, message \in Messages :
          /\ msgCount[u] < MaxChatMsgs /\ Cardinality(turns) < MaxTurns
          /\ processChat(u, key, message)
    \/ \E turn \in turns : LlmOk(turn)
    \/ \E turn \in turns : LlmFail(turn)
    \/ \E u \in {"u1"} : getRecentMessages(u, 0)
    \/ \E t \in BagToSet(tasks) : BuildOk(t)
    \/ \E t \in BagToSet(tasks) : Resume(t)
    \/ \E t \in BagToSet(tasks) :
          t.pc = "insert" /\ StoreSize(t.store) < MaxIndexed /\ InsertOk(t)
    \/ \E t \in BagToSet(tasks) : SearchOk(t)
    \/ \E d \in {1} : ticks < MaxChatTicks /\ Tick(d)

SpecChat == Init /\ [][NextChat]_vars

\* messages created in one run of the context specification before the last
\* call starts
MaxContextMsgs == 9

\* the context of a turn late in a long session: messages appended with and
\* without a credential, and a chat turn among them; the provider answers
\* every call
NextContext ==
    \/ \E u \in {"u1"}, key \in {"k1", NoKey} :
          /\ msgCount[u] < MaxContextMsgs
          /\ key # NoKey => nextTask <= MaxTasks
          /\ addChatMessage(u, "user", key)
    \/ \E u \in {"u1"}, message \in Messages :
          /\ msgCount[u] <= MaxContextMsgs /\ nextTask <= MaxTasks
          /\ processChat(u, "k1", message)
    \/ \E turn \in turns : LlmOk(turn)
    \/ \E t \in BagToSet(tasks) : BuildOk(t)
    \/ \E t \in BagToSet(tasks) : Resume(t)
    \/ \E t \in BagToSet(tasks) :
          t.pc = "insert" /\ StoreSize(t.store) < MaxIndexed /\ InsertOk(t)
    \/ \E t \in BagToSet(tasks) : SearchOk(t)

SpecContext == Init /\ [][NextContext]_vars

\* messages created in one run of the turn specification before the last turn
\* starts
MaxTurnMsgs == 2

\* chat turns of one user, with a message or a blank one, racing at the
\* provider and at the model, each call answered or failed; a turn is the
\* first call of the service or comes when the index is built
NextTurns ==
    \/ \E u \in {"u1"}, key \in {"k1", NoKey}, message \in Messages :
          /\ msgCount[u] < MaxTurnMsgs /\ Cardinality(turns) < MaxTurns
          /\ (vectorStore # 0 \/ builds = 0)
          /\ processChat(u, key, message)
    \/ \E turn \in turns : LlmOk(turn)
    \/ \E turn \in turns : LlmFail(turn)
    \/ \E t \in BagToSet(tasks) : BuildOk(t)
    \/ \E t \in BagToSet(tasks) : Resume(t)
    \/ \E t \in BagToSet(tasks) : BuildFail(t)
    \/ \E t \in BagToSet(tasks) :
          t.pc = "insert" /\ StoreSize(t.store) < MaxIndexed /\ InsertOk(t)
    \/ \E t \in BagToSet(tasks) : InsertFail(t)
    \/ \E t \in BagToSet(tasks) : SearchOk(t)
    \/ \E t \in BagToSet(tasks) : SearchFail(t)

SpecTurns == Init /\ [][NextTurns]_vars

\* messages indexed in a run of the lookup specification
MaxLookupMsgs == 1

\* entries of an index in a run of the lookup specification, the entry made
\* at its build included
MaxLookupIndexed == 3

\* the searches of one user over their own messages and chunks, every call of
\* the provider answered or failed
NextLookup ==
    \/ \E u \in {"u1"} :
          /\ nextTask <= MaxTasks /\ TotalMsgs < MaxLookupMsgs
          /\ addChatMessage(u, "user", "k1")
    \/ \E u \in {"u1"}, n \in ChunkCounts :
          /\ nextTask <= MaxTasks /\ docCount < MaxDocs
          /\ addDocuments(u, n, "k1")
    \/ \E q \in Queries, u \in {"u1"}, limit \in Limits :
          /\ nextTask <= MaxTasks
          /\ searchRelevantHistory(q, u, "k1", limit)
    \/ \E q \in Queries, u \in {"u1"}, limit \in Limits :
          /\ nextTask <= MaxTasks
          /\ searchRelevantDocuments(q, u, "k1", limit)
    \/ \E t \in BagToSet(tasks) : BuildOk(t)
    \/ \E t \in BagToSet(tasks) : Resume(t)
    \/ \E t \in BagToSet(tasks) : BuildFail(t)
    \/ \E t \in BagToSet(tasks) :
          /\ t.pc = "insert"
          /\ StoreSize(t.store) + Len(t.docs) <= MaxLookupIndexed
          /\ InsertOk(t)
    \/ \E t \in BagToSet(tasks) : InsertFail(t)
    \/ \E t \in BagToSet(tasks) : SearchOk(t)
    \/ \E t \in BagToSet(tasks) : SearchFail(t)

SpecLookup == Init /\ [][NextLookup]_vars


\* the provider answers one suspended call
ProviderAnswers ==
    \E t \in BagToSet(tasks) :
        \/ BuildOk(t) \/ BuildFail(t) \/ Resume(t)
        \/ InsertOk(t) \/ InsertFail(t)
        \/ SearchOk(t) \/ SearchFail(t)

\* messages appended without a credential, then credentialed uploads and
\* searches that build the index
NextQueue ==
    \/ \E u \in {"u1"} :
          msgCount[u] < MaxIndexMsgs /\ addChatMessage(u, "user", NoKey)
    \/ \E u \in {"u1"}, n \in ChunkCounts :
          /\ nextTask <= MaxTasks /\ docCount < MaxDocs
          /\ addDocuments(u, n, "k1")
    \/ \E u \in {"u1"}, limit \in Limits :
          /\ nextTask <= MaxTasks
          /\ searchRelevantHistory(<<113>>, u, "k1", limit)
    \/ \E t \in BagToSet(tasks) : BuildOk(t)
    \/ \E t \in BagToSet(tasks) : Resume(t)
    \/ \E t \in BagToSet(tasks) : BuildFail(t)
    \/ \E t \in BagToSet(tasks) : InsertOk(t)
    \/ \E t \in BagToSet(tasks) : InsertFail(t)
    \/ \E t \in BagToSet(tasks) : SearchOk(t)
    \/ \E t \in BagToSet(tasks) : SearchFail(t)

\* every call suspended at the provider is answered in the end: the embedding
\* client has a timeout, so no await on it lasts for ever
SpecQueue == Init /\ [][NextQueue]_vars /\ WF_vars(ProviderAnswers)




\* ------------------------------------------------------------------ claims
\* the number of suspended calls that await HNSWLib.fromTexts
BuildsInFlight ==
    LET B == {t \in BagToSet(tasks) : t.pc = "build"}
    IN  SumOver([t \in B |-> CopiesIn(t, tasks)], B)

\* C1: index construction is single-flight: however the credentialed calls
\* interleave while no index exists, at most one build is in flight.
C1_SingleFlight == BuildsInFlight <= 1

\* C2: on a fresh service (no credentialed call yet), after k calls of
\* addChatMessage without a credential the pending queue holds k messages and
\* the index handle is unset.
C2_KeylessQueued ==
    nextTask = 1 => (Len(pendingMessages) = TotalMsgs /\ vectorStore = 0)

\* C3: a search never returns the seed item, nor an item of a user other than
\* the one who asks.
C3_SearchIsolation ==
    lastOp.op \in SearchOps =>
        \A i \in 1..Len(lastOp.items) :
            /\ lastOp.items[i].id # InitId
            /\ lastOp.items[i].userId = lastOp.user

\* a history search returned a message of the user who asked, from an index
\* that also holds the seed
C3_Witness ==
    /\ lastOp.op = "searchRelevantHistory"
    /\ Len(lastOp.items) > 0
    /\ lastOp.items[1].id = <<lastOp.user, 1>>
    /\ Len(stores) = 1
    /\ \E seed \in BagToSet(stores[1].items) : seed.id = InitId

\* C4: every stored session holds at most 15 messages.
C4_SessionBounded ==
    \A sid \in DOMAIN conversationSessions :
        Len(conversationSessions[sid].messages) <= 15

\* a session that was trimmed: the only session ever created holds the last
\* 15 of the 16 messages its user sent
C4_Witness ==
    /\ nextSid = 2
    /\ \E sid \in DOMAIN conversationSessions :
          LET m == conversationSessions[sid].messages
              u == conversationSessions[sid].userId
          IN  /\ msgCount[u] = MAX_RECENT_MESSAGES + 1
              /\ Len(m) = MAX_RECENT_MESSAGES
              /\ m[1].id = <<u, 2>>
              /\ m[MAX_RECENT_MESSAGES].id = <<u, MAX_RECENT_MESSAGES + 1>>

\* C5: startNewConversation(u) returns a session id other than u's previous
\* one, and right after it u's current session is that one and is empty.
C5_ResetFresh ==
    lastOp.op = "startNewConversation" =>
        /\ lastOp.ret # lastOp.prev
        /\ MapGet(userCurrentSessions, lastOp.user) = lastOp.ret
        /\ lastOp.ret \in DOMAIN conversationSessions
        /\ conversationSessions[lastOp.ret].messages = <<>>
        /\ SliceLast(conversationSessions[lastOp.ret].messages,
                     MAX_RECENT_MESSAGES) = <<>>
        /\ ~getSessionInfo(lastOp.user).isNull
        /\ getSessionInfo(lastOp.user).sessionId = lastOp.ret
        /\ getSessionInfo(lastOp.user).messageCount = 0

\* a reset of a user whose previous session held messages
C5_Witness ==
    /\ lastOp.op = "startNewConversation"
    /\ lastOp.prev \in DOMAIN conversationSessions
    /\ Len(conversationSessions[lastOp.prev].messages) > 0

\* C6: a sweep removes exactly the sessions idle for more than 48 hours; every
\* other session stays as it was, and so does every pointer to a session that
\* stays.
C6_SweepExact ==
    [][lastOp'.op = "cleanupExpiredSessions" =>
        /\ DOMAIN conversationSessions' \subseteq DOMAIN conversationSessions
        /\ \A sid \in DOMAIN conversationSessions :
              IF now - conversationSessions[sid].lastActivity > 48
              THEN sid \notin DOMAIN conversationSessions'
              ELSE /\ sid \in DOMAIN conversationSessions'
                   /\ conversationSessions'[sid] = conversationSessions[sid]
        /\ \A u \in DOMAIN userCurrentSessions :
              now - conversationSessions[userCurrentSessions[u]].lastActivity <= 48
                  => /\ u \in DOMAIN userCurrentSessions'
                     /\ userCurrentSessions'[u] = userCurrentSessions[u]
    ]_vars

\* after a sweep at hour 49: the session last touched at hour 0 is gone, the
\* one last touched at hour 1 (idle for exactly 48 hours) is there with its
\* message and its pointer
C6_Witness ==
    /\ lastOp.op = "cleanupExpiredSessions"
    /\ now = 49
    /\ nextSid = 3
    /\ \E u \in DOMAIN userCurrentSessions :
          /\ DOMAIN conversationSessions = {userCurrentSessions[u]}
          /\ conversationSessions[userCurrentSessions[u]].lastActivity = 1
          /\ Len(conversationSessions[userCurrentSessions[u]].messages) = 1

\* C7: once the index handle is set, no step starts a build (which embeds the
\* seed again) or touches the pending queue.
C7_ReadyNoRebuild ==
    [][vectorStore # 0 =>
          /\ builds' = builds
          /\ pendingMessages' = pendingMessages]_vars

\* two credentialed calls were made and one build was started: the second
\* call found the handle set
C7_Witness ==
    /\ vectorStore # 0
    /\ builds = 1
    /\ nextTask = 3

\* C10: once the index handle is set, no step replaces it.
C10_HandleStable == [][vectorStore # 0 => vectorStore' = vectorStore]_vars

\* C13: the chat semantic search returns chat items only: no document chunk
\* is among the items searchRelevantHistory returns.
C13_HistoryChatOnly ==
    lastOp.op = "searchRelevantHistory" =>
        \A i \in 1..Len(lastOp.items) : lastOp.items[i].type # "document_chunk"

\* C18: each user has at most one active session: a pointer, when present,
\* names a stored session of that user, and every message a session holds
\* belongs to the session's user.
C18_OneActiveSession ==
    /\ \A u \in DOMAIN userCurrentSessions :
          /\ userCurrentSessions[u] \in DOMAIN conversationSessions
          /\ conversationSessions[userCurrentSessions[u]].userId = u
    /\ \A sid \in DOMAIN conversationSessions :
          /\ conversationSessions[sid].sessionId = sid
          /\ \A i \in 1..Len(conversationSessions[sid].messages) :
                conversationSessions[sid].messages[i].userId =
                    conversationSessions[sid].userId

\* after a sweep: a user who had sent a message has neither session nor
\* pointer left
C18_Witness ==
    /\ lastOp.op = "cleanupExpiredSessions"
    /\ \E u \in Users :
          /\ msgCount[u] = 1
          /\ u \notin DOMAIN userCurrentSessions
          /\ \A sid \in DOMAIN conversationSessions :
                conversationSessions[sid].userId # u

\* C19: read-only operations never create a session: a step of
\* getRecentMessages leaves the session store and the pointers as they were,
\* so getSessionInfo stays null for a user who has only read.
C19_ReadsCreateNothing ==
    [][\A u \in Users :
          (lastOp'.op = "getRecentMessages" /\ lastOp'.user = u) =>
              /\ conversationSessions' = conversationSessions
              /\ userCurrentSessions' = userCurrentSessions
              /\ (getSessionInfo(u).isNull => (getSessionInfo(u))'.isNull)]_vars

\* C14: addChatMessage with a credential never fails its caller: no step ends
\* an addChatMessage call as rejected, and the step that makes the call leaves
\* the message as the newest one of the user's current session, whatever the
\* build or the insert in the background does later.
C14_AddNeverFails ==
    [][/\ lastOp'.op = "addChatMessage" => lastOp'.outcome # "rejected"
       /\ \A u \in Users :
             msgCount'[u] # msgCount[u] =>
                 /\ u \in DOMAIN userCurrentSessions'
                 /\ userCurrentSessions'[u] \in DOMAIN conversationSessions'
                 /\ LET m == conversationSessions'[userCurrentSessions'[u]].messages
                    IN  /\ Len(m) > 0
                        /\ m[Len(m)].id = <<u, msgCount'[u]>>]_vars

\* the background work of the only addChatMessage call failed and was logged;
\* the message is in the session
C14_Witness ==
    /\ lastOp.op = "addChatMessage"
    /\ lastOp.outcome = "logged"
    /\ msgCount["u1"] = 1
    /\ getSessionInfo("u1").messageCount = 1

\* C15: synchronous operations surface failures: a step in which the index
\* build or the similarity search of an explicit search fails, or the insert
\* of a document ingestion fails, ends that operation as rejected.
C15_SyncFailuresSurface ==
    [][\A t \in BagToSet(tasks) :
          (\/ t.op \in SearchOps /\ (BuildFail(t) \/ SearchFail(t))
           \/ t.op = "addDocuments" /\ (BuildFail(t) \/ InsertFail(t)))
              => lastOp'.outcome = "rejected"]_vars

\* the error is a credential-required one: its message names the missing key
CredentialRequired(message) == Includes(message, KeyRequired)

\* C16: document ingestion without a credential (processDocument with a file
\* of any type, or addDocuments called directly) ends as rejected with a
\* credential-required error, and it starts no build, suspends no call,
\* inserts no chunk and leaves the index handle, the indexes and the pending
\* queue as they were.
C16_KeylessIngestRejected ==
    [][(\/ \E u \in Users, n \in ChunkCounts : addDocuments(u, n, NoKey)
        \/ \E u \in Users, mimetype \in MimeTypes :
              processDocument(u, mimetype, NoKey))
          => /\ lastOp'.outcome = "rejected"
             /\ CredentialRequired(lastOp'.items)
             /\ UNCHANGED <<vectorStore, stores, pendingMessages, builds,
                            tasks>>]_vars

\* processDocument was refused with the credential-required error while an
\* index with the chunks of an earlier, credentialed upload exists
C16_Witness ==
    /\ lastOp.op = "processDocument"
    /\ lastOp.outcome = "rejected"
    /\ lastOp.items = documentError(ErrorOf(ErrDocumentKeyRequired))
    /\ vectorStore # 0
    /\ \E d \in BagToSet(stores[vectorStore].items) : d.type = "document_chunk"

\* the messages are in the order of their timestamps, oldest first
OrderedByTimestamp(msgs) ==
    \A i, j \in 1..Len(msgs) :
        i < j => msgs[i].timestamp <= msgs[j].timestamp

\* Claim C17: getRecentMessages returns the messages of the user's current
\* session ordered oldest to newest by timestamp, at most the limit of them
\* (here the default, MAX_RECENT_MESSAGES), also when chat turns of the same
\* user are in flight together and complete in another order than they started.
C17_RecentOrdered ==
    lastOp.op = "getRecentMessages" =>
        /\ OrderedByTimestamp(lastOp.items)
        /\ Len(lastOp.items) <= MAX_RECENT_MESSAGES

\* the labels of the sections of a context
Labels(relevantContext) ==
    {relevantContext[i].label : i \in 1..Len(relevantContext)}

\* Claim C11: the contextUsed flag reported for a chat turn is true if and only
\* if the Relevant History section or the Documents section holds at least one
\* item; a turn whose context holds only Recent session messages reports false.
C11_ContextUsedFlag ==
    (lastOp.op = "processChat" /\ lastOp.outcome = "resolved") =>
        (contextUsed(lastOp.items) <=>
            Labels(lastOp.items) \cap {"RELEVANT HISTORY", "DOCUMENTS"} # {})

\* the entries of the section of a context with the given label
SectionEntries(relevantContext, label) ==
    IF \E i \in 1..Len(relevantContext) : relevantContext[i].label = label
    THEN relevantContext[CHOOSE i \in 1..Len(relevantContext) :
                            relevantContext[i].label = label].entries
    ELSE <<>>

\* the hits of a turn whose id the Recent section does not show, in rank order
\* and up to the section cap
HitsNotShown(turn) ==
    LET shown == SectionEntries(turn.allContext, "RECENT CONVERSATION")
        shownIds == {shown[i].id : i \in 1..Len(shown)}
        NotShown(doc) == doc.id \notin shownIds
    IN  SliceFirst(SelectSeq(turn.relevantHistory, NotShown), SemanticCap)

\* Claim C12: in the context of a chat turn the Relevant History section is
\* exactly the semantic chat hits, in rank order and up to the section cap,
\* whose id is not in the Recent section: no id is in both sections, and a hit
\* is dropped only because the Recent section shows its id.
C12_RelevantHistoryDeduped ==
    \A turn \in turns :
        turn.pc = "llm" =>
            SectionEntries(turn.allContext, "RELEVANT HISTORY") = HitsNotShown(turn)

\* the step is the return of search t: similaritySearchWithScore has settled
\* and the call has left the suspended calls, with the filtered documents or,
\* after a caught rejection, with []
SearchReturns(t) == t.pc = "search" /\ tasks' = RemoveTask(tasks, t)

\* Claim C21 as stated: every item a search returns passed the relevance
\* threshold 0.6, for any query, the empty one that lists a user's documents
\* included, and a search with limit k returns at most k items.
C21_Thresholded ==
    [][\A t \in BagToSet(tasks) :
          SearchReturns(t) =>
              /\ lastOp'.op = t.op
              /\ Len(lastOp'.items) <= t.limit
              /\ \A i \in 1..Len(lastOp'.items) : lastOp'.scores[i] > 6]_vars

\* Claim C21, amended: every item returned by a search whose query is not
\* blank (it holds a character other than whitespace) passed the relevance
\* threshold 0.6 (a blank query, empty or of whitespace only, makes
\* searchRelevantDocuments list the user's document chunks whatever their
\* score), and a search with limit k returns at most k items for every query.
C21_ThresholdedQueries ==
    [][\A t \in BagToSet(tasks) :
          SearchReturns(t) =>
              /\ lastOp'.op = t.op
              /\ Len(lastOp'.items) <= t.limit
              /\ ~Blank(t.query) =>
                    \A i \in 1..Len(lastOp'.items) : lastOp'.scores[i] > 6]_vars

\* a document search with the query "q", which is not blank, returned a chunk,
\* and the provider had scored it above the threshold
C21_Witness ==
    /\ lastOp.op = "searchRelevantDocuments"
    /\ lastOp.query = <<113>>
    /\ ~Blank(lastOp.query)
    /\ Len(lastOp.items) = 1
    /\ lastOp.items[1].type = "document_chunk"
    /\ lastOp.scores[1] > 6

\* a document search with a query of whitespace only listed a chunk that the
\* provider had scored at or below the threshold
C21_BlankListing ==
    /\ lastOp.op = "searchRelevantDocuments"
    /\ lastOp.query = <<32, 10>>
    /\ Len(lastOp.items) = 1
    /\ lastOp.scores[1] <= 6

\* the index the handle names holds the document of message id
InIndex(id) ==
    /\ vectorStore # 0
    /\ \E d \in BagToSet(stores[vectorStore].items) : d.id = id

\* Claim C22: a chat message added without a credential is inserted into the
\* index in the end once a later credentialed call has built the index (every
\* message of this specification is added without a credential; message n is
\* there while the handle is unset, then the handle is set), and it is in no
\* index before.
C22_QueuedThenIndexed ==
    \A n \in 1..MaxIndexMsgs :
        /\ []((msgCount["u1"] >= n /\ vectorStore = 0) =>
                 [](vectorStore # 0 => <>InIndex(<<"u1", n>>)))
        /\ [](vectorStore = 0 => ~InIndex(<<"u1", n>>))

\* all but the last element of a non-empty sequence
Front(s) == SubSeq(s, 1, Len(s) - 1)

\* Claim C23: appends, resets and the sweep on one user are serialized.  Every
\* append lands, whole, at the end of the session that is the user's current
\* one at that moment (a fresh one when the pointer is missing or names a
\* removed session), the messages before it are the ones that session held,
\* oldest dropped first, no other session is touched, and the list is never
\* longer than MAX_RECENT_MESSAGES.
C23_AppendsSerialized ==
    [][\A u \in Users :
          msgCount'[u] # msgCount[u] =>
              LET old == MapGet(userCurrentSessions, u)
                  live == old # 0 /\ old \in DOMAIN conversationSessions
                  sid == MapGet(userCurrentSessions', u)
                  before == IF live THEN conversationSessions[old].messages
                            ELSE <<>>
                  after == conversationSessions'[sid].messages
              IN  /\ sid # 0 /\ sid \in DOMAIN conversationSessions'
                  /\ live => sid = old
                  /\ ~live => sid \notin DOMAIN conversationSessions
                  /\ conversationSessions'[sid].userId = u
                  /\ after # <<>>
                  /\ after[Len(after)].id = <<u, msgCount'[u]>>
                  /\ Front(after) = SliceLast(before, Len(after) - 1)
                  /\ Len(after) = Min(Len(before) + 1, MAX_RECENT_MESSAGES)
                  /\ \A other \in DOMAIN conversationSessions \ {sid} :
                        /\ other \in DOMAIN conversationSessions'
                        /\ conversationSessions'[other] =
                              conversationSessions[other]]_vars

\* an append after a reset: the second message is alone in the new current
\* session, the first one still in the session the reset replaced
C23_Witness ==
    /\ lastOp.op = "addChatMessage"
    /\ msgCount["u1"] = 2
    /\ getSessionInfo("u1").messageCount = 1
    /\ \E sid \in DOMAIN conversationSessions :
          /\ sid # userCurrentSessions["u1"]
          /\ conversationSessions[sid].userId = "u1"
          /\ Len(conversationSessions[sid].messages) = 1

\* Claim C24: after k appends to a user's session with no reset or sweep in
\* between, the message list is the last min(k, 15) appended messages in
\* append order, and lastActivity is the time of the last append; a read does
\* not change lastActivity.
C24_AppendTrimTouch ==
    [][\A u \in Users :
          LET k == msgCount'[u]
              session == conversationSessions'[userCurrentSessions'[u]]
              n == Min(k, MAX_RECENT_MESSAGES)
          IN  /\ msgCount'[u] # msgCount[u] =>
                    /\ Len(session.messages) = n
                    /\ \A i \in 1..n : session.messages[i].id = <<u, k - n + i>>
                    /\ session.lastActivity = now
              /\ (lastOp'.op = "getRecentMessages" /\ lastOp'.user = u
                    /\ ~getSessionInfo(u).isNull) =>
                    (getSessionInfo(u))'.lastActivity =
                        getSessionInfo(u).lastActivity]_vars

\* the sixteenth append, made after the clock has moved: the oldest message is
\* gone and lastActivity is the time of that append
C24_Witness ==
    /\ lastOp.op = "addChatMessage"
    /\ msgCount["u1"] = MAX_RECENT_MESSAGES + 1
    /\ now > 0
    /\ getSessionInfo("u1").messageCount = MAX_RECENT_MESSAGES
    /\ getSessionInfo("u1").lastActivity = now
    /\ conversationSessions[userCurrentSessions["u1"]].messages[1].id = <<"u1", 2>>
    /\ conversationSessions[userCurrentSessions["u1"]].messages[1].timestamp < now

\* Claim C25: the index is append-only across the whole run.  Every document a
\* successful insert put into a store is in the index the handle names, the
\* one every later search consults, whatever the interleaving of the first
\* credentialed calls.
C25_AppendOnly ==
    vectorStore # 0 =>
        \A s \in 1..Len(stores) :
            stores[s].items \sqsubseteq stores[vectorStore].items

\* Claim C26: when index construction itself fails, the handle and the pending
\* queue are left as they were (an unset handle stays unset), and the next
\* credentialed call made while the handle is unset starts a fresh build of
\* its own: no failed state is remembered.
C26_FailedBuildRetried ==
    [][/\ \A t \in BagToSet(tasks) :
             BuildFail(t) =>
                 /\ vectorStore' = vectorStore
                 /\ stores' = stores
                 /\ pendingMessages' = pendingMessages
       /\ (vectorStore = 0 /\ builds > BuildsInFlight /\ nextTask' # nextTask) =>
             /\ builds' = builds + 1
             /\ BuildsInFlight' = BuildsInFlight + 1]_vars

\* a credentialed call has just started the second build of the run, after
\* the first one failed: the handle is unset and nothing else is in flight
C26_Witness ==
    /\ lastOp.outcome = "pending"
    /\ vectorStore = 0
    /\ stores = <<>>
    /\ builds = 2
    /\ BuildsInFlight = 1
    /\ BagCardinality(tasks) = 1

\* the messages of the user's current session, none when there is no session
CurrentMessages(u) ==
    LET sid == MapGet(userCurrentSessions, u)
    IN  IF sid # 0 /\ sid \in DOMAIN conversationSessions
        THEN conversationSessions[sid].messages
        ELSE <<>>

\* every user message is followed at once by an assistant message and every
\* assistant message not at the front (where the trim may have cut its pair)
\* follows a user message
Paired(msgs) ==
    \A i \in 1..Len(msgs) :
        IF msgs[i].role = "user"
        THEN i < Len(msgs) /\ msgs[i + 1].role = "assistant"
        ELSE i > 1 => msgs[i - 1].role = "user"

\* Claim C27: the user message and the assistant reply of one chat turn are
\* appended to the session together, the user message first and the reply
\* right after it, behind what the session held; with several turns of one
\* user in flight the messages of different turns never interleave.
C27_TurnAppendedTogether ==
    [][/\ \A turn \in turns :
             LlmOk(turn) =>
                 LET before == CurrentMessages(turn.user)
                     after == (CurrentMessages(turn.user))'
                     n == Len(after)
                 IN  /\ n >= 2
                     /\ after[n - 1] = turn.userMessage
                     /\ after[n].role = "assistant"
                     /\ after[n].id = <<turn.user, msgCount'[turn.user]>>
                     /\ SubSeq(after, 1, n - 2) = SliceLast(before, n - 2)
       /\ \A sid \in DOMAIN conversationSessions' :
             Paired(conversationSessions'[sid].messages)]_vars

\* two turns were in flight together and the second one completed first: its
\* pair stands in front of the pair of the first
C27_Witness ==
    /\ lastOp.op = "processChat"
    /\ lastOp.outcome = "resolved"
    /\ Len(CurrentMessages("u1")) = 4
    /\ CurrentMessages("u1")[1].id = <<"u1", 2>>
    /\ CurrentMessages("u1")[3].id = <<"u1", 1>>

\* the ids of the messages suspended inserts are to put into the index
SubmittedIds ==
    {t.docs[1].id : t \in {x \in BagToSet(tasks) : x.op = "addChatMessage"}}

\* the ids of the messages in any session
SessionIds ==
    UNION {{conversationSessions[sid].messages[i].id :
                i \in 1..Len(conversationSessions[sid].messages)} :
           sid \in DOMAIN conversationSessions}

\* Claim C28: a chat turn that fails (no credential, or the model rejects)
\* appends neither its user message nor a reply to the session and submits
\* nothing for indexing: the step that starts a turn and the step that fails
\* it leave the user's message list and the suspended calls' inserts as they
\* were, and the user message of a turn in flight is in no session and in no
\* insert.
C28_FailedTurnLeavesNoTrace ==
    [][/\ (lastOp'.op = "processChat" /\ lastOp'.outcome # "resolved") =>
             /\ \A u \in Users : (CurrentMessages(u))' = CurrentMessages(u)
             /\ SessionIds' = SessionIds
             /\ SubmittedIds' = SubmittedIds
             /\ stores' = stores
       /\ (lastOp'.op = "processChat" /\ lastOp'.outcome = "rejected") =>
             tasks' = tasks
       /\ \A turn \in turns' :
             turn.userMessage.id \notin SessionIds' \cup SubmittedIds']_vars

\* a turn failed at the model while another turn of the user completed:
\* the session holds the pair of the first turn only
C28_Witness ==
    /\ lastOp.op = "processChat"
    /\ lastOp.outcome = "rejected"
    /\ msgCount["u1"] = 3
    /\ turns = {}
    /\ Len(CurrentMessages("u1")) = 2

\* Claim C29: a chat request that reaches processChat without a credential is
\* answered with status 400 and code API_KEY_REQUIRED, not with the generic
\* 500: on every keyless processChat step the response has status 400 and the
\* message the route sees maps to the code API_KEY_REQUIRED.
C29_KeylessAnswered400 ==
    [][\A u \in Users, message \in Messages :
          processChat(u, NoKey, message) =>
              /\ lastOp'.ret = 400
              /\ chatRouteError(lastOp'.items).code = "API_KEY_REQUIRED"]_vars

\* the session is in the store and past its time to live
StoredExpired(sid) ==
    /\ sid \in DOMAIN conversationSessions
    /\ IsExpired(conversationSessions[sid], now)

\* no user pointer names the session
Orphan(sid) ==
    \A u \in DOMAIN userCurrentSessions : userCurrentSessions[u] # sid

\* Claim C30: with the sweep timer firing, every stored session whose idle
\* time has passed the time to live, a session orphaned by
\* startNewConversation included, is eventually removed from the store unless
\* an append refreshes it first; and a sweep never removes the pointer to a
\* session it leaves in the store.
C30_IdleSessionsSwept ==
    /\ \A sid \in 1..(MaxSessions + 1) :
          StoredExpired(sid) ~> ~StoredExpired(sid)
    /\ [][lastOp'.op = "cleanupExpiredSessions" =>
             \A u \in DOMAIN userCurrentSessions :
                 userCurrentSessions[u] \in DOMAIN conversationSessions' =>
                     /\ u \in DOMAIN userCurrentSessions'
                     /\ userCurrentSessions'[u] = userCurrentSessions[u]]_vars

\* the sweep has removed the orphaned first session of u1 and left the newer
\* session and the pointer to it
C30_Witness ==
    /\ lastOp.op = "cleanupExpiredSessions"
    /\ DOMAIN conversationSessions = {2}
    /\ conversationSessions[2].userId = "u1"
    /\ conversationSessions[2].createdAt > 0
    /\ MapGet(userCurrentSessions, "u1") = 2
    /\ msgCount["u2"] = 0
    /\ nextSid = 3

====
